---- MODULE Spec2Model ----
(***************************************************************************)
(* A model of latte's /generate handler (internal/server/generate-route.go)*)
(* and of compile.Compile (internal/compile/compile.go): the two LRU       *)
(* caches and their mutexes, the root directory, the per-request           *)
(* workspaces, the Store fallback and the order of the handler's steps.    *)
(* Every request is a process whose position is req[r].pc; one action is   *)
(* one stretch of the handler between two accesses to shared state.        *)
(***************************************************************************)
EXTENDS Naturals, Sequences, FiniteSets, TLC

\* ------------------------------------------------------------ bounds
\* Requests the server receives in a behaviour, and how many of them may be
\* inside the handler at the same time.
NumReq == 2
MaxConc == 2
\* ------------------------------------------------------------ constants
\* The sizes the two caches are constructed with (s.tCacheSize, s.rCacheSize).
TCacheSize == 1
RCacheSize == 2

StatusOK == 200
StatusBadRequest == 400
StatusInternalServerError == 500

Reqs == 1 .. NumReq

\* Names ioutil.TempDir may draw for a workspace under the root directory.
WorkNames == {"ws1", "ws2", "ws3"}
\* The root directory itself, any directory outside it (the directory the
\* process was started in, the parent of the root), and a directory that
\* has been removed while still in use.
RootDir == "root"
Outside == "outside"
Gone == "gone"

\* Default delimiter pair of the handler.
DefaultLeft == "#!"
DefaultRight == "!#"

\* What the JSON body may carry in "delimiters": absent, or a pair of which
\* either side may be the empty string.
NoDelims == <<>>
DelimInputs ==
    {NoDelims, <<"#", "!#">>, <<"#!", "#">>, <<"", "!#">>, <<"#!", "">>, <<"", "">>}

\* Inline templates (the base64 text of the "template" field).
\*   "SGk="     is base64 of  Hi       (parses under every pair above)
\*   "IyFpZiEj" is base64 of  #!if!#   (an unclosed action: a parse error)
\*   "!"        is not base64
TemplateInputs == {"SGk=", "IyFpZiEj", "!"}

\* Identifiers the query string may name.
TmplIds == {"welcome"}
RscIds == {"logo.png"}
DtlsIds == {"d.json"}

\* ------------------------------------------------------------ pure helpers
\* hex.EncodeToString(md5.Sum([]byte(s))) on the inline templates.
Md5Hex(s) ==
    CASE s = "SGk=" -> "26fa7ab477bea40cfb65700e9591e9a7"
      [] s = "IyFpZiEj" -> "f98fbabe85135f4cb85d8ce84d2cdf75"
      [] s = "!" -> "9033e0e305f247c0c3c80d0c7848c8b3"
      [] OTHER -> "d41d8cd98f00b204e9800998ecf8427e"

\* base64.StdEncoding.DecodeString: <<ok, text>>.
Base64Decode(s) ==
    CASE s = "SGk=" -> <<TRUE, "Hi">>
      [] s = "IyFpZiEj" -> <<TRUE, "#!if!#">>
      [] OTHER -> <<FALSE, "">>

\* The cache key of an inline template: the hash of the request's template
\* field followed by the two delimiters.
InlineKey(b64, left, right) == Md5Hex(b64) \o left \o right

\* The cache key (and file name, and Store identifier) of a template named
\* in the query string: the identifier followed by the two delimiters.
QueryKey(id, left, right) == id \o left \o right

\* The text of the file or Store entry of a given name.
FileText(name) == IF name = "welcome#!!#" THEN "Hello #!.name!#" ELSE "#!if!#"

\* The files and Store entries of the deployment: the template welcome
\* written for the default delimiters, a broken template stored for the
\* delimiters # and !#, a resource and a details file.
StoredNames == {"welcome#!!#", "welcome#!#", "logo.png", "d.json"}

\* template.New(name).Delims(left, right).Parse(text) fails on an unclosed
\* action; of the texts above that is "#!if!#", under each of the pairs.
ParseFails(text, left, right) == text = "#!if!#"

\* The parsed template: a fresh object (its identity is the request that
\* parsed it: a request parses at most once) with its name and delimiters.
NewTemplate(id, name, left, right) ==
    [id |-> id, name |-> name, left |-> left, right |-> right]
NilTemplate == [id |-> 0, name |-> "", left |-> "", right |-> ""]

\* ------------------------------------------------------------ the LRU cache
\* A cache is a sequence of entries [k, v], most recently used first.
RECURSIVE IndexOf(_, _, _)
IndexOf(c, k, i) ==
    IF i > Len(c) THEN 0
    ELSE IF c[i].k = k THEN i
    ELSE IndexOf(c, k, i + 1)

\* A lookup that never finds its key.
ContainsNever(c, k) == FALSE
Contains(c, k) == IndexOf(c, k, 1) # 0
Keys(c) == {c[i].k : i \in 1 .. Len(c)}
Lookup(c, k) == c[IndexOf(c, k, 1)].v

Without(c, i) == SubSeq(c, 1, i - 1) \o SubSeq(c, i + 1, Len(c))

\* A lookup that creates the entry it does not find.
LruGetOrCreate(c, k) ==
    IF Contains(c, k)
    THEN <<c[IndexOf(c, k, 1)]>> \o Without(c, IndexOf(c, k, 1))
    ELSE <<[k |-> k, v |-> NilTemplate]>> \o c

\* lru.Cache.Get: a hit moves the entry to the front.
LruGet(c, k) ==
    IF Contains(c, k)
    THEN <<c[IndexOf(c, k, 1)]>> \o Without(c, IndexOf(c, k, 1))
    ELSE c

\* An addition that does not look for the key.
LruAddAlways(c, k, v, size) == <<[k |-> k, v |-> v]>> \o c

\* lru.Cache.Add: an existing key is updated and moved to the front; a new
\* key is put at the front and, if the cache then exceeds its size, the
\* entry at the back is removed.
LruAddNoEvict(c, k, v, size) ==
    IF Contains(c, k)
    THEN <<[k |-> k, v |-> v]>> \o Without(c, IndexOf(c, k, 1))
    ELSE <<[k |-> k, v |-> v]>> \o c
LruAdd(c, k, v, size) ==
    IF Contains(c, k)
    THEN <<[k |-> k, v |-> v]>> \o Without(c, IndexOf(c, k, 1))
    ELSE IF Len(c) + 1 > size
         THEN <<[k |-> k, v |-> v]>> \o SubSeq(c, 1, Len(c) - 1)
         ELSE <<[k |-> k, v |-> v]>> \o c

\* ------------------------------------------------------------ state
VARIABLES
    db,          \* whether a Store is configured (s.db # nil)
    store,       \* the identifiers the Store holds
    disk,        \* names of the files in the root directory
    dirs,        \* workspaces that exist under the root directory
    wfiles,      \* entries of the workspaces: [dir, name, kind, target]
    cwd,         \* the process's working directory
    tmplsLocked, \* tmpls.Mutex
    rscsLocked,  \* rscs.Mutex
    tCache,      \* tmpls.t
    rCache,      \* rscs.r
    crashed,     \* the runtime ended the process (unlock of unlocked mutex)
    rm,          \* workspaces whose detached removal is scheduled
    started,     \* requests that entered the handler so far
    req,         \* per request: position and locals of the handler
    hist         \* observations of the run, read only by the properties:
                 \* the keys parsed so far, and for each cache its keys in
                 \* the order of their last use (Get hit or Add), latest first

vars == <<db, store, disk, dirs, wfiles, cwd, tmplsLocked, rscsLocked,
          tCache, rCache, crashed, rm, started, req, hist>>

allButCrashed == <<db, store, disk, dirs, wfiles, cwd, tmplsLocked, rscsLocked,
                   tCache, rCache, rm, started, req, hist>>

\* ------------------------------------------------------------ requests
\* The handler's locals: job j (dir, tmpl, details), delims, the request's
\* fields still to be read, and the status of the response once written.
\* t is the block's local template, hasTmpl is j.tmpl # nil, details is
\* len(j.details) > 0, proc is the directory the compiler process runs in.
IdleReq ==
    [pc |-> "idle", dir |-> "", left |-> DefaultLeft, right |-> DefaultRight,
     b64 |-> "", tmplQ |-> "", key |-> "", t |-> NilTemplate, hasTmpl |-> FALSE,
     rscQ |-> <<>>, rscPath |-> "", dtlsQ |-> "", details |-> FALSE, proc |-> "",
     status |-> 0, cause |-> "", ctxDone |-> FALSE]

\* The locals of the template blocks (lines 103-135, 160-228) end with them.
EndTemplate(rec) ==
    [rec EXCEPT !.left = DefaultLeft, !.right = DefaultRight, !.b64 = "",
                !.tmplQ = "", !.key = "", !.t = NilTemplate]

\* A request is inside the handler from its first step to its return.
Alive(r) == req[r].pc \notin {"idle", "returned"}

\* No request is in the handler, no workspace exists.
Quiet ==
    /\ dirs = {}
    /\ wfiles = {}
    /\ cwd = Outside
    /\ tmplsLocked = FALSE
    /\ rscsLocked = FALSE
    /\ crashed = FALSE
    /\ rm = {}
    /\ started = 0
    /\ req = [r \in Reqs |-> IdleReq]

\* The server right after handleGenerate built the caches (lines 52-61),
\* with or without a Store, and with or without files in the root.
Cold ==
    /\ db \in BOOLEAN
    /\ store \in IF db THEN {{}, StoredNames} ELSE {{}}
    /\ disk \in {{}, {"welcome#!!#", "welcome#!#", "d.json"}}
    /\ tCache = <<>>
    /\ rCache = <<>>
    /\ hist = [parsed |-> {}, tUse |-> <<>>, rUse |-> <<>>]

\* The server after an earlier request (request 0) for
\* ?tmpl=welcome&rsc=logo.png was served from the Store: both files are on
\* disk, the template it parsed and the resource's path are cached.
Warm ==
    /\ db = TRUE
    /\ store = StoredNames
    /\ disk = {"welcome#!!#", "logo.png"}
    /\ tCache = <<[k |-> "welcome#!!#",
                   v |-> NewTemplate(0, "welcome#!!#", DefaultLeft, DefaultRight)]>>
    /\ rCache = <<[k |-> "logo.png", v |-> "root/logo.png"]>>
    /\ hist = [parsed |-> {"welcome#!!#"}, tUse |-> <<>>, rUse |-> <<>>]

Init == Quiet /\ (Cold \/ Warm)

\* A response after which the handler does not return but goes on to the
\* compilation.
RespondAndGoOn(r, rec, st, cause) ==
    /\ req' = [req EXCEPT ![r] = [rec EXCEPT !.pc = "cChdir", !.status = st,
                                             !.cause = cause]]
    /\ rm' = rm

\* The handler writes a response with status st; what is left of it is the
\* return. cause records which branch of the handler responded.
Respond(r, rec, st, cause) ==
    /\ req' = [req EXCEPT ![r] = [IdleReq EXCEPT !.pc = "responded", !.dir = rec.dir,
                                                !.status = st, !.cause = cause]]
    /\ rm' = rm

\* Lines 97-99: the response to a "delimiters" object d with an empty side.
\* The two sides the body carried stay on record until the handler returns.
RespondDelims(r, rec, d) ==
    /\ req' = [req EXCEPT ![r] = [IdleReq EXCEPT !.pc = "responded", !.dir = rec.dir,
                                                !.status = StatusBadRequest,
                                                !.cause = "one delimiter",
                                                !.left = d[1], !.right = d[2]]]
    /\ rm' = rm

Goto(r, rec, pc) ==
    /\ req' = [req EXCEPT ![r] = [rec EXCEPT !.pc = pc]]
    /\ rm' = rm

\* sync.Mutex.Unlock: unlocking a mutex that is not locked is a fatal
\* runtime error, which ends the process; otherwise the mutex is released,
\* whoever locked it, and the handler goes on with A.
TmplsUnlock(A) ==
    IF tmplsLocked
    THEN /\ tmplsLocked' = FALSE
         /\ crashed' = crashed
         /\ A
    ELSE /\ crashed' = TRUE
         /\ UNCHANGED allButCrashed

RscsUnlock(A) ==
    IF rscsLocked
    THEN /\ rscsLocked' = FALSE
         /\ crashed' = crashed
         /\ A
    ELSE /\ crashed' = TRUE
         /\ UNCHANGED allButCrashed

\* ------------------------------------------------------------ the handler
\* A name drawn without looking at what exists.
TempDirAny == {"ws1"}

\* ioutil.TempDir(s.rootDir, ""): a name under the root that does not exist.
\* Which name is drawn is immaterial; the first free one stands for it.
TempDirNames ==
    IF "ws1" \notin dirs THEN {"ws1"}
    ELSE IF "ws2" \notin dirs THEN {"ws2"}
    ELSE IF "ws3" \notin dirs THEN {"ws3"}
    ELSE {}

\* Lines 136-159: the inline resources are written as files into the
\* workspace (a failure responds 500), and the tmpl parameter is read.
WriteInline(r, rec) ==
    \E names \in {{}, {"logo.png"}}, q \in TmplIds \cup {""} :
       \/ /\ wfiles' = wfiles \cup
                 {[dir |-> rec.dir, name |-> n, kind |-> "file", target |-> ""] : n \in names}
          /\ Goto(r, [rec EXCEPT !.tmplQ = q], "tq")
       \/ /\ names # {}
          /\ wfiles' = wfiles
          /\ Respond(r, rec, StatusInternalServerError, "decode error")

\* Lines 80-108 and 136-159, after the workspace was made: the JSON body, if
\* the request has one: its delimiters, its inline template (whose key is
\* computed), or else its inline resources.
Decode(r, rec) ==
    \/ /\ wfiles' = wfiles
       /\ \E q \in TmplIds \cup {""} : Goto(r, [rec EXCEPT !.tmplQ = q], "tq")
    \/ /\ wfiles' = wfiles
       /\ Respond(r, rec, StatusBadRequest, "empty body")
    \/ /\ wfiles' = wfiles
       /\ Respond(r, rec, StatusInternalServerError, "decode error")
    \/ \E d \in DelimInputs, t \in TemplateInputs \cup {""} :
         LET left == IF d = NoDelims THEN DefaultLeft ELSE d[1]
             right == IF d = NoDelims THEN DefaultRight ELSE d[2]
         IN  IF d # NoDelims /\ (d[1] = "" \/ d[2] = "")
             THEN /\ wfiles' = wfiles
                  /\ RespondDelims(r, rec, d)
             ELSE IF t # ""
             THEN /\ wfiles' = wfiles
                  /\ Goto(r, [rec EXCEPT !.left = left, !.right = right, !.b64 = t,
                                         !.key = InlineKey(t, left, right)], "tiLock")
             ELSE WriteInline(r, [rec EXCEPT !.left = left, !.right = right])

\* Lines 62-108: the request enters the handler, which creates its workspace
\* and defers its removal (if TempDir fails it responds 500 and returns),
\* and reads the body.
Start(r) ==
    /\ ~crashed
    /\ req[r].pc = "idle"
    /\ r = started + 1
    /\ Cardinality({q \in Reqs : Alive(q)}) < MaxConc
    /\ started' = r
    /\ \/ \E d \in TempDirNames :
            /\ dirs' = dirs \cup {d}
            /\ Decode(r, [req[r] EXCEPT !.dir = d])
       \/ /\ dirs' = dirs
          /\ wfiles' = wfiles
          /\ Respond(r, req[r], StatusInternalServerError, "tempdir error")
    /\ UNCHANGED <<db, store, disk, cwd, tmplsLocked, rscsLocked,
                   tCache, rCache, crashed, hist>>

\* Lines 109-112, 130-132: tmpls.Lock() and the lookup of the inline key.
TInlineLockGet(r) ==
    /\ ~crashed
    /\ req[r].pc = "tiLock"
    /\ ~tmplsLocked
    /\ tmplsLocked' = TRUE
    /\ tCache' = LruGet(tCache, req[r].key)
    /\ IF Contains(tCache, req[r].key)
       THEN Goto(r, [req[r] EXCEPT !.t = Lookup(tCache, req[r].key)], "tiUnlock")
       ELSE Goto(r, req[r], "tiParse")
    /\ UNCHANGED <<db, store, disk, dirs, wfiles, cwd, rscsLocked,
                   rCache, crashed, started, hist>>

\* Lines 113-129: on a miss the template is decoded, parsed and added.
TInlineParse(r) ==
    /\ ~crashed
    /\ req[r].pc = "tiParse"
    /\ LET dec == Base64Decode(req[r].b64)
           t == NewTemplate(r, req[r].key, req[r].left, req[r].right)
       IN  IF ~dec[1] \/ ParseFails(dec[2], req[r].left, req[r].right)
           THEN /\ TmplsUnlock(Respond(r, req[r], StatusInternalServerError,
                                       "template error"))
                /\ UNCHANGED <<tCache, hist>>
           ELSE /\ tCache' = LruAdd(tCache, req[r].key, t, TCacheSize)
                /\ hist' = [hist EXCEPT !.parsed = @ \cup {req[r].key}]
                /\ Goto(r, [req[r] EXCEPT !.t = t], "tiUnlock")
                /\ UNCHANGED <<tmplsLocked, crashed>>
    /\ UNCHANGED <<db, store, disk, dirs, wfiles, cwd, rscsLocked, rCache, started>>

\* Lines 133-159: j.tmpl = t; tmpls.Unlock(); the block ends; then the
\* inline resources.
TInlineUnlock(r) ==
    /\ ~crashed
    /\ req[r].pc = "tiUnlock"
    /\ IF tmplsLocked
       THEN /\ tmplsLocked' = FALSE
            /\ crashed' = crashed
            /\ WriteInline(r, [EndTemplate(req[r]) EXCEPT !.hasTmpl = TRUE])
       ELSE /\ crashed' = TRUE
            /\ UNCHANGED allButCrashed
    /\ UNCHANGED <<db, store, disk, dirs, cwd, rscsLocked,
                   tCache, rCache, started, hist>>

\* The Store's Fetch: the bytes, the not-found signal, or another error.
FetchOutcomes(id) == IF id \in store THEN {"data", "error"} ELSE {"notfound", "error"}

\* The rsc parameters a request may carry.
RscLists == {<<>>, <<"logo.png">>, <<"logo.png", "logo.png">>}

\* A test of the tmpl parameter that forgets the template of the body.
UsesQueryAlways(rec) == rec.tmplQ # ""

\* Line 160: the tmpl parameter is resolved if the body gave no template and
\* the parameter is not empty.
UsesQuery(rec) == ~rec.hasTmpl /\ rec.tmplQ # ""

\* Lines 160-165, 223-235: the tmpl parameter. It is read only if the body
\* gave no template; then tmpls.Lock() and the lookup of its key.
TQueryLockGet(r) ==
    /\ ~crashed
    /\ req[r].pc = "tq"
    /\ IF ~UsesQuery(req[r]) /\ req[r].hasTmpl
       THEN /\ \E l \in RscLists : Goto(r, [EndTemplate(req[r]) EXCEPT !.rscQ = l], "rsc")
            /\ UNCHANGED <<tmplsLocked, tCache>>
       ELSE IF ~UsesQuery(req[r])
       THEN /\ Respond(r, req[r], StatusBadRequest, "no template")
            /\ UNCHANGED <<tmplsLocked, tCache>>
       ELSE LET key == QueryKey(req[r].tmplQ, req[r].left, req[r].right)
            IN  /\ ~tmplsLocked
                /\ tmplsLocked' = TRUE
                /\ tCache' = LruGet(tCache, key)
                /\ IF Contains(tCache, key)
                   THEN Goto(r, [req[r] EXCEPT !.key = key, !.t = Lookup(tCache, key)],
                             "tqUnlock")
                   ELSE Goto(r, [req[r] EXCEPT !.key = key], "tqStat")
    /\ UNCHANGED <<db, store, disk, dirs, wfiles, cwd, rscsLocked,
                   rCache, crashed, started, hist>>

\* Lines 166-176, 199-204: os.Stat of the template's file under the root.
TQueryStat(r) ==
    /\ ~crashed
    /\ req[r].pc = "tqStat"
    /\ \/ /\ req[r].key \in disk
          /\ Goto(r, req[r], "tqRead")
          /\ UNCHANGED <<tmplsLocked, crashed>>
       \/ /\ req[r].key \notin disk
          /\ db
          /\ Goto(r, req[r], "tqFetch")
          /\ UNCHANGED <<tmplsLocked, crashed>>
       \/ /\ req[r].key \notin disk
          /\ ~db
          /\ TmplsUnlock(Respond(r, req[r], StatusBadRequest, "template notfound"))
       \/ TmplsUnlock(Respond(r, req[r], StatusInternalServerError, "template error"))
    /\ UNCHANGED <<db, store, disk, dirs, wfiles, cwd, rscsLocked,
                   tCache, rCache, started, hist>>

\* Lines 177-198: s.db.Fetch of the template returns, and toDisk writes the
\* bytes under the root.
TQueryFetch(r) ==
    /\ ~crashed
    /\ req[r].pc = "tqFetch"
    /\ \E out \in FetchOutcomes(req[r].key) :
         \/ /\ out = "data"
            /\ disk' = disk \cup {req[r].key}
            /\ Goto(r, req[r], "tqRead")
            /\ UNCHANGED <<tmplsLocked, crashed>>
         \/ /\ out = "data"
            /\ disk' = disk
            /\ TmplsUnlock(Respond(r, req[r], StatusInternalServerError, "template error"))
         \/ /\ out = "error"
            /\ disk' = disk
            /\ TmplsUnlock(Respond(r, req[r], StatusInternalServerError, "template error"))
         \/ /\ out = "notfound"
            /\ disk' = disk
            /\ TmplsUnlock(Respond(r, req[r], StatusInternalServerError,
                                   "template notfound"))
    /\ UNCHANGED <<db, store, dirs, wfiles, cwd, rscsLocked,
                   tCache, rCache, started, hist>>

\* Lines 205-222: the file is read, parsed and the template added.
TQueryParse(r) ==
    /\ ~crashed
    /\ req[r].pc = "tqRead"
    /\ LET t == NewTemplate(r, req[r].key, req[r].left, req[r].right)
       IN  \/ /\ ~ParseFails(FileText(req[r].key), req[r].left, req[r].right)
              /\ tCache' = LruAdd(tCache, req[r].key, t, TCacheSize)
              /\ hist' = [hist EXCEPT !.parsed = @ \cup {req[r].key}]
              /\ Goto(r, [req[r] EXCEPT !.t = t], "tqUnlock")
              /\ UNCHANGED <<tmplsLocked, crashed>>
           \/ /\ ParseFails(FileText(req[r].key), req[r].left, req[r].right)
              /\ TmplsUnlock(Respond(r, req[r], StatusInternalServerError, "template error"))
              /\ UNCHANGED <<tCache, hist>>
           \/ /\ TmplsUnlock(Respond(r, req[r], StatusInternalServerError, "template error"))
              /\ UNCHANGED <<tCache, hist>>
    /\ UNCHANGED <<db, store, disk, dirs, wfiles, cwd, rscsLocked, rCache, started>>

\* Lines 226-228, 235: j.tmpl = t; tmpls.Unlock(); then the rsc parameters.
TQueryUnlock(r) ==
    /\ ~crashed
    /\ req[r].pc = "tqUnlock"
    /\ TmplsUnlock(\E l \in RscLists :
                      Goto(r, [EndTemplate(req[r]) EXCEPT !.hasTmpl = TRUE, !.rscQ = l], "rsc"))
    /\ UNCHANGED <<db, store, disk, dirs, wfiles, cwd, rscsLocked,
                   tCache, rCache, started, hist>>

\* filepath.Join(s.rootDir, name).
RootPath(name) == "root/" \o name

\* os.Stat(path) reports that nothing exists at path: the empty path names
\* no file.
NotExist(path) == path \notin {RootPath(n) : n \in disk}

\* The path line 241 hands to os.Stat: the local rscPath, declared on the
\* line before and not yet assigned.
StatArg(id) == ""

\* A lock that lets everyone in.
RscsFreeAlways == TRUE

\* Line 238: rscs.Lock() returns only when the mutex is not locked.
RscsFree == ~rscsLocked

\* Lines 236-247, 273-275: the next rsc parameter: rscs.Lock(), the lookup
\* of the identifier, the test of line 241 and, with no Store, the response.
\* After the last one come the dtls parameter and j.details (lines 137-139:
\* whether the body carried details).
RLockGet(r) ==
    /\ ~crashed
    /\ req[r].pc = "rsc"
    /\ IF req[r].rscQ = <<>>
       THEN /\ \E q \in DtlsIds \cup {""}, det \in BOOLEAN :
                  Goto(r, [req[r] EXCEPT !.dtlsQ = q, !.details = det], "dt")
            /\ UNCHANGED <<rscsLocked, rCache>>
       ELSE LET id == Head(req[r].rscQ)
                exists == Contains(rCache, id)
            IN  /\ RscsFree
                /\ rCache' = LruGet(rCache, id)
                /\ IF NotExist(StatArg(id)) \/ ~exists
                   THEN IF ~db
                        THEN /\ rscsLocked' = FALSE
                             /\ Respond(r, req[r], StatusBadRequest, "resource notfound")
                        ELSE /\ rscsLocked' = TRUE
                             /\ Goto(r, req[r], "rFetch")
                   ELSE /\ rscsLocked' = TRUE
                        /\ Goto(r, [req[r] EXCEPT !.rscPath = Lookup(rCache, id)], "rLink")
    /\ UNCHANGED <<db, store, disk, dirs, wfiles, cwd, tmplsLocked,
                   tCache, crashed, started, hist>>

\* Lines 249-272: s.db.Fetch of the resource returns, toDisk writes it under
\* the root and its path is added to the cache; when the write fails, line
\* 267 unlocks tmpls.
RFetch(r) ==
    /\ ~crashed
    /\ req[r].pc = "rFetch"
    /\ LET id == Head(req[r].rscQ)
       IN  \E out \in FetchOutcomes(id) :
             \/ /\ out = "data"
                /\ disk' = disk \cup {id}
                /\ rCache' = LruAdd(rCache, id, RootPath(id), RCacheSize)
                /\ Goto(r, [req[r] EXCEPT !.rscPath = RootPath(id)], "rLink")
                /\ UNCHANGED <<tmplsLocked, rscsLocked, crashed>>
             \/ /\ out = "data"
                /\ TmplsUnlock(Respond(r, req[r], StatusInternalServerError,
                                       "resource write error"))
                /\ UNCHANGED <<disk, rCache, rscsLocked>>
             \/ /\ out = "error"
                /\ RscsUnlock(Respond(r, req[r], StatusInternalServerError,
                                      "resource fetch error"))
                /\ UNCHANGED <<disk, rCache, tmplsLocked>>
             \/ /\ out = "notfound"
                /\ RscsUnlock(Respond(r, req[r], StatusInternalServerError,
                                      "resource notfound"))
                /\ UNCHANGED <<disk, rCache, tmplsLocked>>
    /\ UNCHANGED <<db, store, dirs, wfiles, cwd, tCache, started, hist>>

\* The names in workspace d.
Names(d) == {f.name : f \in {g \in wfiles : g.dir = d}}

\* A resource step that copies the file into the workspace.
RLinkCopy(r) ==
    /\ ~crashed
    /\ req[r].pc = "rLink"
    /\ LET id == Head(req[r].rscQ)
       IN  RscsUnlock(
             /\ wfiles' = wfiles \cup {[dir |-> req[r].dir, name |-> id,
                                        kind |-> "file", target |-> ""]}
             /\ Goto(r, [req[r] EXCEPT !.rscQ = Tail(@), !.rscPath = ""], "rsc"))
    /\ UNCHANGED <<db, store, disk, dirs, cwd, tmplsLocked,
                   tCache, rCache, started, hist>>

\* Lines 276-283: rscs.Unlock() and os.Symlink(rscPath, workDir/rscID),
\* which fails if the workspace already has an entry of that name.
RLink(r) ==
    /\ ~crashed
    /\ req[r].pc = "rLink"
    /\ LET id == Head(req[r].rscQ)
       IN  RscsUnlock(
             IF id \notin Names(req[r].dir)
             THEN /\ wfiles' = wfiles \cup {[dir |-> req[r].dir, name |-> id,
                                             kind |-> "link", target |-> req[r].rscPath]}
                  /\ Goto(r, [req[r] EXCEPT !.rscQ = Tail(@), !.rscPath = ""], "rsc")
             ELSE /\ wfiles' = wfiles
                  /\ Respond(r, req[r], StatusInternalServerError,
                             "resource symlink error"))
    /\ UNCHANGED <<db, store, disk, dirs, cwd, tmplsLocked,
                   tCache, rCache, started, hist>>

\* Lines 285-296, 357-391: the dtls parameter, read only if the body gave no
\* details: os.Stat of its file under the root; a file that is there is
\* opened and decoded.
DStat(r) ==
    /\ ~crashed
    /\ req[r].pc = "dt"
    /\ IF req[r].details \/ req[r].dtlsQ = ""
       THEN Goto(r, [req[r] EXCEPT !.dtlsQ = ""], "cChdir")
       ELSE \/ /\ ~NotExist(RootPath(req[r].dtlsQ))
               /\ Goto(r, [req[r] EXCEPT !.details = TRUE, !.dtlsQ = ""], "cChdir")
            \/ /\ ~NotExist(RootPath(req[r].dtlsQ))
               /\ Respond(r, req[r], StatusInternalServerError, "details error")
            \/ /\ NotExist(RootPath(req[r].dtlsQ))
               /\ db
               /\ Goto(r, req[r], "dFetch")
            \/ /\ NotExist(RootPath(req[r].dtlsQ))
               /\ ~db
               /\ Respond(r, req[r], StatusInternalServerError, "details notfound")
    /\ UNCHANGED <<db, store, disk, dirs, wfiles, cwd, tmplsLocked, rscsLocked,
                   tCache, rCache, crashed, started, hist>>

\* Lines 297-356: s.db.Fetch of the details returns, toDisk writes them
\* under the root and they are decoded.
DFetch(r) ==
    /\ ~crashed
    /\ req[r].pc = "dFetch"
    /\ \E out \in FetchOutcomes(req[r].dtlsQ) :
         \/ /\ out = "data"
            /\ disk' = disk \cup {req[r].dtlsQ}
            /\ Goto(r, [req[r] EXCEPT !.details = TRUE, !.dtlsQ = ""], "cChdir")
         \/ /\ out = "data"
            /\ disk' \in {disk, disk \cup {req[r].dtlsQ}}
            /\ Respond(r, req[r], StatusInternalServerError, "details error")
         \/ /\ out = "error"
            /\ disk' = disk
            /\ Respond(r, req[r], StatusInternalServerError, "details error")
         \/ /\ out = "notfound"
            /\ disk' = disk
            /\ Respond(r, req[r], StatusInternalServerError, "details notfound")
    /\ UNCHANGED <<db, store, dirs, wfiles, cwd, tmplsLocked, rscsLocked,
                   tCache, rCache, crashed, started, hist>>

\* compile.go lines 12-26: os.Chdir(dir) changes the working directory of
\* the process; the template is then rendered into the compiler's stdin.
CompileChdir(r) ==
    /\ ~crashed
    /\ req[r].pc = "cChdir"
    /\ cwd' = req[r].dir
    /\ \/ Goto(r, req[r], "cStart")
       \/ Respond(r, req[r], StatusInternalServerError, "compile error")
    /\ UNCHANGED <<db, store, disk, dirs, wfiles, tmplsLocked, rscsLocked,
                   tCache, rCache, crashed, started, hist>>

\* compile.go line 28: cmd.Output() starts pdflatex, which inherits the
\* working directory the process has at that moment.
CompileStart(r) ==
    /\ ~crashed
    /\ req[r].pc = "cStart"
    /\ Goto(r, [req[r] EXCEPT !.proc = cwd], "cWait")
    /\ UNCHANGED <<db, store, disk, dirs, wfiles, cwd, tmplsLocked, rscsLocked,
                   tCache, rCache, crashed, started, hist>>

\* The artifact of the job named after workspace d.
PdfName(d) == d \o ".pdf"

\* os.Chdir("..") from directory d; from a removed directory it fails and
\* the working directory stays.
Parent(d) ==
    IF d \in WorkNames THEN RootDir
    ELSE IF d = Gone THEN Gone
    ELSE Outside

\* The workspaces of the requests inside the handler.
Owned == {req[q].dir : q \in {p \in Reqs : Alive(p)}}

\* compile.go lines 28-34, generate-route.go lines 394-412: pdflatex ends. It
\* wrote <jobname>.pdf into the directory it ran in; on success Compile goes
\* up one directory and returns the artifact's name, and the handler opens
\* that file in its workspace and streams it.
CompileWait(r) ==
    /\ ~crashed
    /\ req[r].pc = "cWait"
    /\ \/ /\ req[r].proc # Gone
          /\ wfiles' = IF req[r].proc \in Owned
                       THEN wfiles \cup {[dir |-> req[r].proc, name |-> PdfName(req[r].dir),
                                          kind |-> "file", target |-> ""]}
                       ELSE wfiles
          /\ cwd' = Parent(cwd)
          /\ IF req[r].proc = req[r].dir
             THEN Respond(r, req[r], StatusOK, "pdf")
             ELSE Respond(r, req[r], StatusInternalServerError, "compile error")
       \/ /\ wfiles' = wfiles
          /\ cwd' = cwd
          /\ Respond(r, req[r], StatusInternalServerError, "compile error")
    /\ UNCHANGED <<db, store, disk, dirs, tmplsLocked, rscsLocked,
                   tCache, rCache, crashed, started, hist>>

\* The request is cancelled (the client went away, or its deadline passed)
\* while its compiler runs: r.Context() is done. Compile (compile.go lines
\* 11-35) has no context and starts pdflatex with exec.Command, so nothing
\* else happens. A cancellation at another step only makes a pending
\* s.db.Fetch return an error, which FetchOutcomes covers.
Cancel(r) ==
    /\ ~crashed
    /\ req[r].pc = "cWait"
    /\ ~req[r].ctxDone
    /\ Goto(r, [req[r] EXCEPT !.ctxDone = TRUE], "cWait")
    /\ UNCHANGED <<db, store, disk, dirs, wfiles, cwd, tmplsLocked, rscsLocked,
                   tCache, rCache, crashed, started, hist>>

\* Lines 72-73, the deferred function: the handler returns and the removal
\* of its workspace is handed to a goroutine. What the request left in the
\* workspace is no longer followed, only that the directory is there.
Return(r) ==
    /\ ~crashed
    /\ req[r].pc = "responded"
    /\ req' = [req EXCEPT ![r] = [IdleReq EXCEPT !.pc = "returned"]]
    /\ rm' = IF req[r].dir = "" THEN rm ELSE rm \cup {req[r].dir}
    /\ wfiles' = {f \in wfiles : f.dir # req[r].dir}
    /\ UNCHANGED <<db, store, disk, dirs, cwd, tmplsLocked, rscsLocked,
                   tCache, rCache, crashed, started, hist>>

\* Lines 74-76: the goroutine removes the workspace and everything in it. A
\* process that runs in it, or has it as its working directory, is left in
\* a removed directory.
Remove(d) ==
    /\ ~crashed
    /\ d \in rm
    /\ rm' = rm \ {d}
    /\ dirs' = dirs \ {d}
    /\ cwd' = IF cwd = d THEN Gone ELSE cwd
    /\ req' = [r \in Reqs |-> IF req[r].proc = d THEN [req[r] EXCEPT !.proc = Gone]
                               ELSE req[r]]
    /\ UNCHANGED <<db, store, disk, wfiles, tmplsLocked, rscsLocked,
                   tCache, rCache, crashed, started, hist>>

Next ==
    \/ \E r \in Reqs :
         \/ Start(r)
         \/ TInlineLockGet(r)
         \/ TInlineParse(r)
         \/ TInlineUnlock(r)
         \/ TQueryLockGet(r)
         \/ TQueryStat(r)
         \/ TQueryFetch(r)
         \/ TQueryParse(r)
         \/ TQueryUnlock(r)
         \/ RLockGet(r)
         \/ RFetch(r)
         \/ RLink(r)
         \/ DStat(r)
         \/ DFetch(r)
         \/ CompileChdir(r)
         \/ CompileStart(r)
         \/ CompileWait(r)
         \/ Cancel(r)
         \/ Return(r)
    \/ \E d \in WorkNames : Remove(d)

Spec == Init /\ [][Next]_vars

\* Every goroutine that can take a step eventually takes one: the handlers,
\* and the detached removals.
FairSpec ==
    /\ Spec
    /\ \A r \in Reqs : WF_vars(Start(r) \/ TInlineLockGet(r) \/ TInlineParse(r)
                                 \/ TInlineUnlock(r) \/ TQueryLockGet(r)
                                 \/ TQueryStat(r) \/ TQueryFetch(r) \/ TQueryParse(r)
                                 \/ TQueryUnlock(r) \/ RLockGet(r) \/ RFetch(r)
                                 \/ RLink(r) \/ DStat(r) \/ DFetch(r)
                                 \/ CompileChdir(r) \/ CompileStart(r)
                                 \/ CompileWait(r) \/ Return(r))
    /\ \A d \in WorkNames : WF_vars(Remove(d))

\* ------------------------------------------------------------ the caches alone
\* The two caches under arbitrary lookups and additions, as the handler
\* calls them (rscs.r.Get / rscs.r.Add, tmpls.t.Get / tmpls.t.Add), over
\* more keys than either cache holds.
CacheKeys == {"welcome#!!#", "welcome#!#", "logo.png"}

\* A use of key k puts it in front of the keys used before.
Touch(u, k) == <<k>> \o SelectSeq(u, LAMBDA x : x # k)

TGet(k) ==
    /\ tCache' = LruGet(tCache, k)
    /\ hist' = [hist EXCEPT !.tUse = IF k \in Keys(tCache) THEN Touch(@, k) ELSE @]
    /\ UNCHANGED <<db, store, disk, dirs, wfiles, cwd, tmplsLocked, rscsLocked,
                   rCache, crashed, rm, started, req>>

TAdd(k) ==
    /\ tCache' = LruAdd(tCache, k, NewTemplate(1, k, DefaultLeft, DefaultRight), TCacheSize)
    /\ hist' = [hist EXCEPT !.tUse = Touch(@, k)]
    /\ UNCHANGED <<db, store, disk, dirs, wfiles, cwd, tmplsLocked, rscsLocked,
                   rCache, crashed, rm, started, req>>

RGet(k) ==
    /\ rCache' = LruGet(rCache, k)
    /\ hist' = [hist EXCEPT !.rUse = IF k \in Keys(rCache) THEN Touch(@, k) ELSE @]
    /\ UNCHANGED <<db, store, disk, dirs, wfiles, cwd, tmplsLocked, rscsLocked,
                   tCache, crashed, rm, started, req>>

RAdd(k) ==
    /\ rCache' = LruAdd(rCache, k, RootPath(k), RCacheSize)
    /\ hist' = [hist EXCEPT !.rUse = Touch(@, k)]
    /\ UNCHANGED <<db, store, disk, dirs, wfiles, cwd, tmplsLocked, rscsLocked,
                   tCache, crashed, rm, started, req>>

InitLRU == Quiet /\ Cold /\ ~db /\ disk = {}

NextLRU ==
    \/ \E k \in CacheKeys : TGet(k)
    \/ \E k \in CacheKeys : TAdd(k)
    \/ \E k \in CacheKeys : RGet(k)
    \/ \E k \in CacheKeys : RAdd(k)

SpecLRU == InitLRU /\ [][NextLRU]_vars

\* ------------------------------------------------------------ properties
\* The key of cache c whose last use (order u, latest first) is the oldest.
Oldest(c, u) ==
    LET idx == {i \in 1 .. Len(u) : u[i] \in Keys(c)}
    IN  u[CHOOSE i \in idx : \A j \in idx : j <= i]

\* Cache c becomes c2: nothing leaves the cache unless a key that was not
\* in it is added to a full cache, and then exactly the least recently used
\* key leaves.
EvictsOldest(c, c2, u, size) ==
    IF Keys(c2) \subseteq Keys(c)
    THEN Keys(c2) = Keys(c)
    ELSE IF Len(c) < size
    THEN Keys(c) \subseteq Keys(c2)
    ELSE Keys(c) \ Keys(c2) = {Oldest(c, u)}

\* C1: each cache holds at most its capacity of entries, and when a key
\* that is not in the cache is added to a full cache, exactly the least
\* recently used entry (Get hits and Adds are uses) is removed.
C1_LruCapacity ==
    /\ [](Len(tCache) <= TCacheSize /\ Len(rCache) <= RCacheSize)
    /\ [][/\ EvictsOldest(tCache, tCache', hist.tUse, TCacheSize)
          /\ EvictsOldest(rCache, rCache', hist.rUse, RCacheSize)]_vars

\* A full resource cache from which an entry has been evicted, and whose
\* oldest addition is not its least recently used key.
C1_Witness ==
    /\ Len(rCache) = RCacheSize
    /\ Len(hist.rUse) = 3
    /\ hist.rUse[3] \notin Keys(rCache)
    /\ Len(tCache) = TCacheSize
    /\ Len(hist.tUse) > TCacheSize

\* C2: a request that resolved an inline template holds a template parsed
\* under its own delimiters: the same inline content under two different
\* delimiter pairs has two different keys, so neither request gets the
\* template object parsed for the other.
C2_DistinctDelimKeys ==
    \A r \in Reqs :
        req[r].pc = "tiUnlock" =>
            /\ req[r].t.left = req[r].left
            /\ req[r].t.right = req[r].right

\* Request r parses a template in this step.
Parses(r) ==
    /\ req[r].pc \in {"tiParse", "tqRead"}
    /\ req'[r].pc \in {"tiUnlock", "tqUnlock"}

\* C3 as stated: each key is parsed at most once in the lifetime of the
\* cache: no request parses a key that has been parsed before.
C3_ParsedAtMostOnce ==
    [][\A r \in Reqs : Parses(r) => req[r].key \notin hist.parsed]_vars

\* The key request r looks up in this step, "" if the step is no lookup.
LooksUp(r) ==
    IF req[r].pc = "tiLock" /\ req'[r].pc # "tiLock"
    THEN req[r].key
    ELSE IF /\ req[r].pc = "tq" /\ req'[r].pc # "tq"
            /\ ~req[r].hasTmpl /\ req[r].tmplQ # ""
    THEN QueryKey(req[r].tmplQ, req[r].left, req[r].right)
    ELSE ""

\* The value cache c holds for key k.
Entry(c, k) == c[CHOOSE i \in 1 .. Len(c) : c[i].k = k].v

\* C3 amended: a resolution that finds its key in the template cache returns
\* the identical cached template object and parses nothing; a resolution
\* that does not find it (a key never resolved, or one the eviction removed)
\* goes on to parse it.
C3_HitReturnsCached ==
    [][\A r \in Reqs :
         LooksUp(r) # "" =>
            IF LooksUp(r) \in Keys(tCache)
            THEN /\ req'[r].pc \in {"tiUnlock", "tqUnlock"}
                 /\ req'[r].t = Entry(tCache, LooksUp(r))
                 /\ hist'.parsed = hist.parsed
            ELSE req'[r].pc \in {"tiParse", "tqStat"}]_vars

\* A request holds, after its lookup, the template another request parsed,
\* while a key parsed earlier is no longer in the cache.
C3_Witness ==
    /\ \E r \in Reqs :
          /\ req[r].pc \in {"tiUnlock", "tqUnlock"}
          /\ req[r].t.id \notin {0, r}
          /\ req[r].t.name = req[r].key
    /\ hist.parsed \ Keys(tCache) # {}

\* The causes of the responses that report an identifier found neither on
\* disk nor in the Store.
NotFoundCauses == {"template notfound", "resource notfound", "details notfound"}

\* C4: a response reporting that a template, resource or details identifier
\* is neither on disk nor in the Store (or that no Store is configured) has
\* a client-error status (4xx), never 5xx.
C4_NotFoundIsClientError ==
    \A r \in Reqs :
        (req[r].pc = "responded" /\ req[r].cause \in NotFoundCauses)
            => req[r].status \in 400 .. 499

\* Request r takes a step of a resolution that ends, or may still end, with
\* the identifier found nowhere: the lookup that misses, the stat that finds
\* no file, the fetch that is to come, the not-found response.
ResolvesInVain(r) ==
    /\ req[r].pc \in {"tq", "tqStat", "tqFetch", "rsc", "rFetch"}
    /\ req'[r].pc # req[r].pc
    /\ \/ req'[r].pc \in {"tqStat", "tqFetch", "rFetch"}
       \/ req'[r].pc = "responded" /\ req'[r].cause \in NotFoundCauses

\* C5: a resolution of a template or resource identifier that is found
\* neither on disk nor in the Store adds no cache entry: none of its steps,
\* from the lookup to the not-found response, changes the set of keys of
\* the template cache or of the resource-path cache.
C5_FailedResolutionAddsNothing ==
    [][\A r \in Reqs :
         ResolvesInVain(r) =>
            /\ Keys(tCache') = Keys(tCache)
            /\ Keys(rCache') = Keys(rCache)]_vars

\* One request has been answered that its template was found nowhere and
\* another that its resource was found nowhere, while the template cache
\* holds an entry.
C5_Witness ==
    /\ \E r \in Reqs :
          /\ req[r].pc = "responded"
          /\ req[r].cause = "resource notfound"
    /\ \E r \in Reqs :
          /\ req[r].pc = "responded"
          /\ req[r].cause = "template notfound"
    /\ tCache # <<>>

\* C6: every workspace that was created is eventually absent from the root
\* directory: whatever way the handler leaves, the removal of its workspace
\* is scheduled, and the scheduled removal runs.
C6_WorkspaceEventuallyRemoved ==
    \A d \in WorkNames : (d \in dirs) ~> (d \notin dirs)

\* The requests inside the handler that have a workspace.
Housed == {r \in Reqs : Alive(r) /\ req[r].dir # ""}

\* C7: from before its first resolution step until its handler has written
\* the response and returns, a request's workspace is present in the root
\* and its removal has not been scheduled; and no two requests inside the
\* handler have the same workspace.
C7_WorkspaceOwned ==
    /\ \A r \in Housed : req[r].dir \in dirs /\ req[r].dir \notin rm
    /\ \A r, q \in Housed : r # q => req[r].dir # req[q].dir

\* One request waits for its compiler and another resolves a resource, each
\* in its own workspace.
C7_Witness ==
    \E r, q \in Housed :
        /\ req[r].pc = "cWait"
        /\ req[q].pc = "rFetch"
        /\ req[r].dir # req[q].dir

\* C8: the Store's Fetch is called for a resource identifier only if the
\* identifier is absent from the resource-path cache and its file is absent
\* from the root directory.
C8_FetchOnlyIfAbsent ==
    \A r \in Reqs :
        req[r].pc = "rFetch" =>
            /\ Head(req[r].rscQ) \notin Keys(rCache)
            /\ NotExist(RootPath(Head(req[r].rscQ)))

\* The links in the workspaces of the requests inside the handler.
Links == {f \in wfiles : f.kind = "link"}

\* C9: requests that name the same resource of a configured Store are not
\* told that it was not found, and once they have linked it the
\* resource-path cache holds exactly one entry for the identifier, mapping
\* it to the one path under the root that every link points to.
C9_OneEntryPerResource ==
    /\ \A i, j \in 1 .. Len(rCache) : rCache[i].k = rCache[j].k => i = j
    /\ \A i \in 1 .. Len(rCache) : rCache[i].v = RootPath(rCache[i].k)
    /\ \A f \in Links :
          /\ f.name \in Keys(rCache)
          /\ f.target = Entry(rCache, f.name)
          /\ f.name \in disk
    /\ \A r \in Reqs :
          (req[r].pc = "responded" /\ req[r].cause = "resource notfound")
              => (~db \/ store = {})

\* Both requests have linked logo.png, from a Store, into their workspaces.
C9_Witness ==
    /\ db
    /\ \A r \in Reqs :
          /\ Alive(r)
          /\ \E f \in Links : f.dir = req[r].dir /\ f.name = "logo.png"
    /\ Len(rCache) = 1

\* The step of the handler a request is in.
Phase(pc) ==
    CASE pc = "idle" -> 0
      [] pc \in {"tiLock", "tiParse", "tiUnlock", "tq",
                 "tqStat", "tqFetch", "tqRead", "tqUnlock"} -> 1
      [] pc \in {"rsc", "rFetch", "rLink"} -> 2
      [] pc \in {"dt", "dFetch"} -> 3
      [] pc \in {"cChdir", "cStart", "cWait"} -> 4
      [] pc = "responded" -> 5
      [] pc = "returned" -> 6

TemplatePcs == {"tiLock", "tiParse", "tiUnlock", "tqStat", "tqFetch", "tqRead", "tqUnlock"}

\* C11: a request is answered 400 "only received one delimiter; need none
\* or both" exactly if its body carried one of the two delimiters and not
\* the other: a rejected body has exactly one empty side, and a request that
\* goes on to resolve a template has a pair with no empty side.
C11_RejectedIffOneDelimiter ==
    \A r \in Reqs :
        /\ (req[r].pc = "responded" /\ req[r].cause = "one delimiter") =>
              /\ req[r].status = StatusBadRequest
              /\ (req[r].left = "") # (req[r].right = "")
        /\ req[r].pc \in TemplatePcs => (req[r].left # "" /\ req[r].right # "")

\* C12: the compiler of a cancelled request is terminated: once the request
\* is cancelled its compiler run does not go on to completion, so the run
\* neither leaves the artifact in a workspace nor ends in the answer 200.
C12_CancelKillsCompiler ==
    [][\A r \in Reqs :
         (req[r].pc = "cWait" /\ req[r].ctxDone /\ req'[r].pc # "cWait") =>
            /\ req'[r].status # StatusOK
            /\ \A f \in wfiles' \ wfiles : f.name # PdfName(req[r].dir)]_vars

\* C13: the compiler of a request runs in that request's own workspace and
\* writes its artifact there: no compiler runs in, and no artifact of a
\* request lies in, the workspace of another request.
C13_CompilesInOwnWorkspace ==
    /\ \A r \in Reqs : req[r].pc = "cWait" => req[r].proc = req[r].dir
    /\ \A r \in Housed, f \in wfiles :
          (f.dir = req[r].dir /\ f.kind = "file" /\ f.name \in {PdfName(d) : d \in WorkNames})
              => f.name = PdfName(req[r].dir)

\* C14: a template requested by identifier X (the tmpl parameter) is looked
\* for in the file named X under the root and fetched from the Store under
\* the identifier X: the name the handler stats, fetches and reads is X, and
\* a successful fetch leaves the file named X on disk.
C14_FileNamedByIdentifier ==
    [][\A r \in Reqs :
         /\ req[r].pc \in {"tqStat", "tqFetch", "tqRead"} => req[r].key = req[r].tmplQ
         /\ (req[r].pc = "tqFetch" /\ req'[r].pc = "tqRead") => req[r].tmplQ \in disk']_vars

\* The key of the template request r is about to lock the cache for, "" if
\* it is not at a tmpls.Lock().
WaitsForKey(r) ==
    IF req[r].pc = "tiLock" THEN req[r].key
    ELSE IF req[r].pc = "tq" /\ ~req[r].hasTmpl /\ req[r].tmplQ # ""
    THEN QueryKey(req[r].tmplQ, req[r].left, req[r].right)
    ELSE ""

\* C15: template resolutions of distinct keys run in parallel: no request
\* stands at the template lock while another request is in the middle of
\* resolving (stat, fetch, read, parse) a template of a different key.
C15_DistinctKeysInParallel ==
    \A r, q \in Reqs :
        (/\ WaitsForKey(r) # ""
         /\ tmplsLocked
         /\ req[q].pc \in {"tiParse", "tqStat", "tqFetch", "tqRead"})
            => req[q].key = WaitsForKey(r)

\* C16: when the resource step of a request succeeds for identifier X, the
\* request's workspace holds a symbolic link named X whose target is the
\* path the resource-path cache maps X to, the file named X under the root.
C16_LinkedByName ==
    [][\A r \in Reqs :
         (req[r].pc = "rLink" /\ req'[r].pc = "rsc") =>
            LET X == Head(req[r].rscQ)
            IN  /\ X \in Keys(rCache')
                /\ Entry(rCache', X) = "root/" \o X
                /\ [dir |-> req[r].dir, name |-> X, kind |-> "link",
                    target |-> Entry(rCache', X)] \in wfiles'
                /\ \A f \in wfiles' : (f.dir = req[r].dir /\ f.name = X) => f.kind = "link"]_vars

\* A request has linked logo.png and goes on to its next parameter, while
\* another request carries an inline file of the same name.
C16_Witness ==
    \E r, q \in Housed :
        /\ req[r].pc \in {"rsc", "dt"}
        /\ [dir |-> req[r].dir, name |-> "logo.png", kind |-> "link",
            target |-> "root/logo.png"] \in wfiles
        /\ [dir |-> req[q].dir, name |-> "logo.png", kind |-> "file",
            target |-> ""] \in wfiles

\* C17: the template comes from one source. At the tmpl parameter, a
\* request that has the template of its body goes straight on to the
\* resources, without lock, lookup, disk access or fetch for the parameter;
\* a request without one resolves the parameter; a request with neither is
\* answered 400 "no template provided", before any later step.
C17_OneTemplateSource ==
    [][\A r \in Reqs :
         (req[r].pc = "tq" /\ req'[r].pc # "tq") =>
            IF req[r].hasTmpl
            THEN /\ req'[r].pc = "rsc"
                 /\ req'[r].hasTmpl
                 /\ UNCHANGED <<tmplsLocked, tCache, disk, hist>>
            ELSE IF req[r].tmplQ # ""
            THEN /\ req'[r].pc \in {"tqStat", "tqUnlock"}
                 /\ req'[r].key = QueryKey(req[r].tmplQ, req[r].left, req[r].right)
            ELSE /\ req'[r].pc = "responded"
                 /\ req'[r].status = StatusBadRequest
                 /\ req'[r].cause = "no template"
                 /\ UNCHANGED <<tmplsLocked, tCache, disk, hist>>]_vars

\* A request whose body carried a template and whose tmpl parameter names
\* another one stands before the parameter, and a request with neither has
\* been answered.
C17_Witness ==
    \E r, q \in Reqs :
        /\ req[r].pc = "tq" /\ req[r].hasTmpl /\ req[r].tmplQ # ""
        /\ req[q].pc = "responded" /\ req[q].cause = "no template"

\* The requests between rscs.Lock() and rscs.Unlock(): fetching a resource,
\* writing it and adding its path, or about to unlock.
Downloading == {r \in Reqs : req[r].pc \in {"rFetch", "rLink"}}

\* C18: at most one request at a time is fetching and writing a resource;
\* it holds the resource lock while it does, and a request that names the
\* same identifier gets past the lock only when the first has added the
\* path or has failed.
C18_OneFetchAtATime ==
    /\ Cardinality(Downloading) <= 1
    /\ Downloading # {} => rscsLocked

\* One request is fetching logo.png while the other waits at the lock for
\* the same identifier.
C18_Witness ==
    \E r, q \in Reqs :
        /\ req[r].pc = "rFetch"
        /\ req[q].pc = "rsc"
        /\ req[q].rscQ # <<>>
        /\ Head(req[q].rscQ) = Head(req[r].rscQ)

\* The requests between tmpls.Lock() and tmpls.Unlock().
Resolving ==
    {r \in Reqs : req[r].pc \in {"tiParse", "tiUnlock", "tqStat", "tqFetch",
                                 "tqRead", "tqUnlock"}}

\* C19: each lock is locked exactly while a request is between its Lock()
\* and its Unlock(): a request that has left the handler, or its critical
\* section, has released the lock it took, nobody unlocks a lock that he
\* does not hold (which for an unlocked mutex ends the process), and at
\* most one request is inside each critical section.
C19_LockDiscipline ==
    /\ tmplsLocked <=> Resolving # {}
    /\ rscsLocked <=> Downloading # {}
    /\ Cardinality(Resolving) <= 1
    /\ Cardinality(Downloading) <= 1
    /\ ~crashed

\* C20: every request that has entered the handler eventually returns,
\* having written its response: none waits for ever for a lock.
C20_EveryRequestReturns ==
    \A r \in Reqs : (req[r].pc # "idle") ~> (req[r].pc = "returned")

====
